---- MODULE Spec2Model ----
(***************************************************************************)
(* Bookstore catalog service (cmd/main.go): the record store, the ID       *)
(* allocator getNextID, startup seeding prepareData, and the handlers of   *)
(* POST/PUT/DELETE /api/books, GET /api/search and GET /authors.           *)
(*                                                                         *)
(* A Go string is modelled as the sequence of its characters, each a       *)
(* one-character TLA+ string; "" is << >>.  The MongoDB collection is the  *)
(* sequence of its documents in natural (insertion) order.                 *)
(***************************************************************************)
EXTENDS Integers, Sequences, FiniteSets, TLC

\* ------------------------------------------------------------------ bounds

\* Calls (process starts and requests) in one behaviour.  It caps the
\* collection's size and idCounter as well: both grow only with calls.
MaxCalls == 4

\* ----------------------------------------------------------------- strings

Digits == <<"0", "1", "2", "3", "4", "5", "6", "7", "8", "9">>

IsDigit(c) == \E i \in 1..10 : Digits[i] = c

DigitVal(c) == (CHOOSE i \in 1..10 : Digits[i] = c) - 1

UpperCase == <<"A", "B", "C", "D", "E", "F", "G", "H", "I", "J", "K", "L", "M",
               "N", "O", "P", "Q", "R", "S", "T", "U", "V", "W", "X", "Y", "Z">>

LowerCase == <<"a", "b", "c", "d", "e", "f", "g", "h", "i", "j", "k", "l", "m",
               "n", "o", "p", "q", "r", "s", "t", "u", "v", "w", "x", "y", "z">>

\* (First) byte of a character in UTF-8, for the characters used here; a
\* character outside ASCII starts with a byte above every ASCII one.
ByteOf(c) == IF IsDigit(c) THEN 48 + DigitVal(c)
             ELSE IF \E i \in 1..26 : UpperCase[i] = c
                  THEN 64 + (CHOOSE i \in 1..26 : UpperCase[i] = c)
             ELSE IF \E i \in 1..26 : LowerCase[i] = c
                  THEN 96 + (CHOOSE i \in 1..26 : LowerCase[i] = c)
             ELSE IF c = "-" THEN 45
             ELSE IF c = "+" THEN 43
             ELSE IF c = " " THEN 32
             ELSE IF c = "." THEN 46
             ELSE 195

\* MongoDB's default (simple binary) string order, as {"$sort": {"id": -1}}
\* applies it to the string field id: byte by byte, a proper prefix first.
RECURSIVE StrLess(_, _)
StrLess(a, b) ==
    IF b = << >> THEN FALSE
    ELSE IF a = << >> THEN TRUE
    ELSE IF Head(a) = Head(b) THEN StrLess(Tail(a), Tail(b))
    ELSE ByteOf(Head(a)) < ByteOf(Head(b))

\* Value of a run of decimal digits.
RECURSIVE DigitsValue(_)
DigitsValue(s) ==
    IF s = << >> THEN 0
    ELSE 10 * DigitsValue(SubSeq(s, 1, Len(s) - 1)) + DigitVal(s[Len(s)])

AllDigits(s) == \A i \in 1..Len(s) : IsDigit(s[i])

\* strconv.ParseInt(s, 10, 64): an optional sign, then one or more decimal
\* digits and nothing else.  (The values here are far inside 64 bits, so the
\* range error is not reached.)
ParseInt(s) ==
    LET signed == s # << >> /\ Head(s) \in {"+", "-"}
        body   == IF signed THEN Tail(s) ELSE s
    IN  IF body = << >> \/ ~AllDigits(body)
        THEN [ok |-> FALSE, val |-> 0]
        ELSE [ok |-> TRUE,
              val |-> IF signed /\ Head(s) = "-" THEN 0 - DigitsValue(body)
                      ELSE DigitsValue(body)]

\* strconv.FormatInt(n, 10).
RECURSIVE FormatNat(_)
FormatNat(n) ==
    IF n < 10 THEN <<Digits[n + 1]>>
    ELSE Append(FormatNat(n \div 10), Digits[(n % 10) + 1])

FormatInt(n) == IF n < 0 THEN <<"-">> \o FormatNat(0 - n) ELSE FormatNat(n)

\* Length of the longest prefix of s made of decimal digits.
RECURSIVE DigitRun(_)
DigitRun(s) ==
    IF s = << >> \/ ~IsDigit(Head(s)) THEN 0 ELSE 1 + DigitRun(Tail(s))

RECURSIVE SkipSpace(_)
SkipSpace(s) == IF s # << >> /\ Head(s) = " " THEN SkipSpace(Tail(s)) ELSE s

\* fmt.Sscanf(s, "%d", &v): leading spaces are skipped, an optional sign is
\* taken, then the longest run of digits; what follows the number is left
\* unread and is no error.  n is the number of items scanned.
Sscanf(s) ==
    LET t      == SkipSpace(s)
        signed == t # << >> /\ Head(t) \in {"+", "-"}
        body   == IF signed THEN Tail(t) ELSE t
        k      == DigitRun(body)
        mag    == DigitsValue(SubSeq(body, 1, k))
    IN  IF k = 0 THEN [n |-> 0, val |-> 0]
        ELSE [n |-> 1, val |-> IF signed /\ Head(t) = "-" THEN 0 - mag ELSE mag]

\* The coercion of createBook and updateBook for Pages and Year: 0 for an
\* empty string or a failed scan.
Coerce(s) ==
    IF s # << >>
    THEN LET r == Sscanf(s) IN IF r.n # 1 THEN 0 ELSE r.val
    ELSE 0

\* ------------------------------------------------------------------ records

\* type BookStore.  Stored without bson tags, so the document's fields are
\* id, bookname, bookauthor, bookisbn, bookpages, bookyear.
BookStore(id, name, author, isbn, pages, year) ==
    [ID |-> id, BookName |-> name, BookAuthor |-> author, BookISBN |-> isbn,
     BookPages |-> pages, BookYear |-> year]

\* type BookRequest.
BookRequest(id, title, author, pages, edition, year) ==
    [ID |-> id, Title |-> title, Author |-> author, Pages |-> pages,
     Edition |-> edition, Year |-> year]

\* The five fields bookExists compares.
Tuple(b) == <<b.BookName, b.BookAuthor, b.BookYear, b.BookPages, b.BookISBN>>

\* The seed books of prepareData, without their IDs.
TheVortex == [name   |-> <<"T","h","e"," ","V","o","r","t","e","x">>,
              author |-> <<"J","o","s","é"," ","E","u","s","t","a","s","i","o",
                           " ","R","i","v","e","r","a">>,
              isbn   |-> <<"9","5","8","-","3","0","-","0","8","0","4","-","4">>,
              pages  |-> 292, year |-> 1924]

Frankenstein == [name   |-> <<"F","r","a","n","k","e","n","s","t","e","i","n">>,
                 author |-> <<"M","a","r","y"," ","S","h","e","l","l","e","y">>,
                 isbn   |-> <<"9","7","8","-","3","-","6","4","9","-","6","4",
                              "6","0","9","-","9">>,
                 pages  |-> 280, year |-> 1818]

TheBlackCat == [name   |-> <<"T","h","e"," ","B","l","a","c","k"," ","C","a","t">>,
                author |-> <<"E","d","g","a","r"," ","A","l","l","a","n"," ",
                             "P","o","e">>,
                isbn   |-> <<"9","7","8","-","3","-","9","9","1","6","8","-",
                             "2","3","8","-","7">>,
                pages  |-> 280, year |-> 1843]

SeedBooks == <<TheVortex, Frankenstein, TheBlackCat>>

\* var idCounter int64 = 1000000
IdCounterStart == 1000000

\* ---------------------------------------------------------------- allocator

StoredIDs(coll) == {coll[i].ID : i \in 1..Len(coll)}

\* The pipeline of getNextID: the documents that have an id, sorted by id
\* descending, limit 1.  id is a string field, so the sort is the string
\* order; the result is the ID of the first document (documents with equal
\* IDs carry the same ID, so which of them comes first does not matter).
TopID(coll) == CHOOSE a \in StoredIDs(coll) :
                   \A b \in StoredIDs(coll) : ~StrLess(a, b)

\* Faulty variant of getNextID: the counter is incremented before it is
\* formatted, so the first ID of an empty collection is 1000001.
GetNextID_IncrementFirst(coll, counter) ==
    LET parsed == IF Len(coll) > 0 THEN ParseInt(TopID(coll))
                  ELSE [ok |-> FALSE, val |-> 0]
        c      == IF Len(coll) > 0 /\ parsed.ok THEN parsed.val + 1 ELSE counter
    IN  [id |-> FormatInt(c + 1), counter |-> c + 1]

\* getNextID with idCounter = counter: the ID returned and idCounter after.
GetNextID(coll, counter) ==
    LET parsed == IF Len(coll) > 0 THEN ParseInt(TopID(coll))
                  ELSE [ok |-> FALSE, val |-> 0]
        c      == IF Len(coll) > 0 /\ parsed.ok THEN parsed.val + 1 ELSE counter
    IN  [id |-> FormatInt(c), counter |-> c + 1]

\* ------------------------------------------------------------ startup seeding

\* The seed with index i of startData, carrying the ID it was given.
SeedBook(i, id) ==
    BookStore(id, SeedBooks[i].name, SeedBooks[i].author, SeedBooks[i].isbn,
              SeedBooks[i].pages, SeedBooks[i].year)

\* Faulty variant of InsertOne: a conditional write, which
\* refuses a document whose five compared fields are stored already.
InsertOne_IfAbsent(coll, book) ==
    IF \E i \in 1..Len(coll) : Tuple(coll[i]) = Tuple(book)
    THEN coll
    ELSE Append(coll, book)

\* coll.InsertOne(ctx, book): the document is added; nothing is compared.
InsertOne(coll, book) == Append(coll, book)

\* coll.Find(ctx, book): the struct is the filter, so a document matches when
\* all six fields, the ID included, are equal.
FindBook(coll, book) == {i \in 1..Len(coll) : coll[i] = book}

\* The loop of prepareData over startData from index i on: more than one match
\* is log.Fatal (the process exits, what was inserted stays), no match inserts,
\* one match only prints.
RECURSIVE SeedLoop(_, _, _)
SeedLoop(coll, books, i) ==
    IF i > Len(books) THEN [coll |-> coll, fatal |-> FALSE]
    ELSE LET n == Cardinality(FindBook(coll, books[i]))
         IN  IF n > 1 THEN [coll |-> coll, fatal |-> TRUE]
             ELSE IF n = 0 THEN SeedLoop(InsertOne(coll, books[i]), books, i + 1)
             ELSE SeedLoop(coll, books, i + 1)

\* prepareData: startData is built first, with three getNextID calls against
\* the collection as it stands, and only then the loop runs.
PrepareData(coll, counter) ==
    LET a1 == GetNextID(coll, counter)
        a2 == GetNextID(coll, a1.counter)
        a3 == GetNextID(coll, a2.counter)
        startData == <<SeedBook(1, a1.id), SeedBook(2, a2.id), SeedBook(3, a3.id)>>
        done == SeedLoop(coll, startData, 1)
    IN  [coll |-> done.coll, counter |-> a3.counter,
         ids |-> <<a1.id, a2.id, a3.id>>, fatal |-> done.fatal]

\* --------------------------------------------------------------- repository

ErrNone == ""
ErrExists == "book already exists"
ErrNotFound == "book not found"

\* Faulty variant of bookExists: the whole struct is the filter (as in
\* prepareData), so the ID is compared too.
BookExists_WithID(coll, book) == \E i \in 1..Len(coll) : coll[i] = book

\* bookExists: FindOne on the five fields bookname, bookauthor, bookyear,
\* bookpages, bookisbn.
BookExists(coll, book) ==
    \E i \in 1..Len(coll) :
        /\ coll[i].BookName = book.BookName
        /\ coll[i].BookAuthor = book.BookAuthor
        /\ coll[i].BookYear = book.BookYear
        /\ coll[i].BookPages = book.BookPages
        /\ coll[i].BookISBN = book.BookISBN

\* The ID createBook gives the book, and idCounter after: the request's ID,
\* or getNextID's when the request has none.  ids lists what getNextID
\* returned.
BookID(coll, counter, req) ==
    IF req.ID = << >>
    THEN LET a == GetNextID(coll, counter)
         IN  [id |-> a.id, counter |-> a.counter, ids |-> <<a.id>>]
    ELSE [id |-> req.ID, counter |-> counter, ids |-> << >>]

\* Faulty variant of createBook: the existence check is left out.
CreateBook_NoCheck(coll, counter, req) ==
    LET bid  == BookID(coll, counter, req)
        book == BookStore(bid.id, req.Title, req.Author, req.Edition,
                          Coerce(req.Pages), Coerce(req.Year))
    IN  [coll |-> InsertOne(coll, book), counter |-> bid.counter,
         ids |-> bid.ids, book |-> book, err |-> ErrNone]

\* createBook: the book is built (getNextID called) before the existence
\* check; InsertOne appends the document.
CreateBook(coll, counter, req) ==
    LET pages == Coerce(req.Pages)
        year  == Coerce(req.Year)
        bid   == BookID(coll, counter, req)
        book  == BookStore(bid.id, req.Title, req.Author, req.Edition, pages, year)
    IN  IF BookExists(coll, book)
        THEN [coll |-> coll, counter |-> bid.counter, ids |-> bid.ids,
              book |-> book, err |-> ErrExists]
        ELSE [coll |-> InsertOne(coll, book), counter |-> bid.counter,
              ids |-> bid.ids, book |-> book, err |-> ErrNone]

\* The first document the filter {"id": id} matches (0: none): UpdateOne and
\* DeleteOne act on that one alone.
FirstByID(coll, id) ==
    IF \E i \in 1..Len(coll) : coll[i].ID = id
    THEN CHOOSE i \in 1..Len(coll) :
             coll[i].ID = id /\ \A j \in 1..(i - 1) : coll[j].ID # id
    ELSE 0

\* Faulty variant of the $set: bookisbn is left out.
SetFields_KeepsISBN(doc, req) ==
    [doc EXCEPT !.BookName = req.Title, !.BookAuthor = req.Author,
                !.BookPages = Coerce(req.Pages), !.BookYear = Coerce(req.Year)]

\* The $set of updateBook applied to one document.
SetFields(doc, req) ==
    [doc EXCEPT !.BookName = req.Title, !.BookAuthor = req.Author,
                !.BookISBN = req.Edition, !.BookPages = Coerce(req.Pages),
                !.BookYear = Coerce(req.Year)]

\* updateBook: MatchedCount = 0 is "book not found".
UpdateBook(coll, id, req) ==
    LET i == FirstByID(coll, id)
    IN  IF i = 0 THEN [coll |-> coll, err |-> ErrNotFound]
        ELSE [coll |-> [coll EXCEPT ![i] = SetFields(coll[i], req)],
              err |-> ErrNone]

\* The collection without its document i.
RemoveAt(coll, i) == SubSeq(coll, 1, i - 1) \o SubSeq(coll, i + 1, Len(coll))

\* deleteBook: DeletedCount = 0 is "book not found".
DeleteBook(coll, id) ==
    LET i == FirstByID(coll, id)
    IN  IF i = 0 THEN [coll |-> coll, err |-> ErrNotFound]
        ELSE [coll |-> RemoveAt(coll, i), err |-> ErrNone]

\* -------------------------------------------------------------------- search

\* Case folding of the "i" option, for the ASCII letters.
ToLower(c) == IF \E i \in 1..26 : UpperCase[i] = c
              THEN LowerCase[CHOOSE i \in 1..26 : UpperCase[i] = c]
              ELSE c

\* The query is handed to {"$regex": query} as it is, so it is a pattern, not
\* a text.  Of the pattern language the model covers the characters the
\* queries below use: "." matches any one character, "(" opens a group, and
\* every other character stands for itself.  A query with a "(" and no ")"
\* does not compile, and the Find fails.
RegexCompiles(q) == \A j \in 1..Len(q) : q[j] # "("

\* Whether pattern q matches text at position i.
RegexMatchAt(text, q, i) ==
    \A j \in 1..Len(q) :
        \/ q[j] = "."
        \/ ToLower(q[j]) = ToLower(text[i + j - 1])

\* {"$regex": q, "$options": "i"} on a string field: not anchored.
RegexMatch(text, q) ==
    \E i \in 1..(Len(text) - Len(q) + 1) : RegexMatchAt(text, q, i)

\* The $or filter of GET /api/search.  Its fourth branch reads the field
\* bookedition, which no document has (the edition is stored as bookisbn), so
\* that branch matches nothing.
SearchFilter(doc, q) ==
    \/ RegexMatch(doc.BookName, q)
    \/ RegexMatch(doc.BookAuthor, q)
    \/ RegexMatch(doc.BookISBN, q)
    \/ FALSE

\* coll.Find(ctx, filter): the matching documents in natural order.
SearchBooks(coll, q) == SelectSeq(coll, LAMBDA doc : SearchFilter(doc, q))

\* ------------------------------------------------------------------- authors

\* authorBooks[author] = append(authorBooks[author], name)
AppendTitle(m, author, name) ==
    [a \in (DOMAIN m) \cup {author} |->
        IF a = author
        THEN Append(IF a \in DOMAIN m THEN m[a] ELSE << >>, name)
        ELSE m[a]]

\* Faulty variant of the loop: only an empty Title is skipped.
RECURSIVE AuthorBooks_KeepsNoISBN(_, _, _)
AuthorBooks_KeepsNoISBN(results, i, m) ==
    IF i > Len(results) THEN m
    ELSE IF results[i].BookName = << >>
         THEN AuthorBooks_KeepsNoISBN(results, i + 1, m)
         ELSE AuthorBooks_KeepsNoISBN(results, i + 1,
                  AppendTitle(m, results[i].BookAuthor, results[i].BookName))

\* The first loop of getAuthors from document i on, m being authorBooks.
RECURSIVE AuthorBooks(_, _, _)
AuthorBooks(results, i, m) ==
    IF i > Len(results) THEN m
    ELSE IF results[i].BookISBN = << >> \/ results[i].BookName = << >>
         THEN AuthorBooks(results, i + 1, m)
         ELSE AuthorBooks(results, i + 1,
                          AppendTitle(m, results[i].BookAuthor, results[i].BookName))

\* getAuthors: one entry per key of authorBooks.  The slice is filled in map
\* iteration order, which Go leaves open, so the result is kept as the set of
\* its entries.
GetAuthors(coll) ==
    LET authorBooks == AuthorBooks(coll, 1, << >>)
    IN  {[BookAuthor |-> a, BookName |-> authorBooks[a]] : a \in DOMAIN authorBooks}

\* --------------------------------------------------------------------- state

VARIABLES
    store,       \* the collection "information": its documents in natural order
    idCounter,   \* var idCounter of the running process
    running,     \* whether a process is up and serving (prepareData is over)
    resp,        \* the last call: what was asked and what came back
    calls,       \* calls so far (process starts and requests)
    created,     \* the five fields of the requests createBook stored, with no
                 \* update or delete since
    returned,    \* the IDs getNextID returned in this process
    deleted,     \* IDs deleted with no insert since
    emptyCalls,  \* getNextID calls of this process, while every one of them
                 \* found the collection empty; -1 once one did not
    pc,          \* concurrent creates: where each worker stands
    local        \* concurrent creates: each worker's request and locals

vars == <<store, idCounter, running, resp, calls, created, returned, deleted,
          emptyCalls, pc, local>>

\* ------------------------------------------------------------------- inputs

Str999 == <<"9", "9", "9">>

\* The id of a request: none (the ID is allocated) or one the client chose.
ReqIDs == {<< >>, Str999}

\* An ID no document ever has.
MissingID == <<"4", "0", "4">>

Dune == <<"D", "u", "n", "e">>
Notes == <<"N", "o", "t", "e", "s">>
MaryShelley == Frankenstein.author

\* Request bodies: two that differ only in how Pages is written ("12a" and
\* "12" both scan as 12), one with no edition and unparsable numbers, and
\* one with no title.
ReqBodies ==
    { [Title |-> Dune, Author |-> MaryShelley, Pages |-> <<"1", "2", "a">>,
       Edition |-> <<"E", "1">>, Year |-> <<"1", "8", "1", "8">>],
      [Title |-> Dune, Author |-> MaryShelley, Pages |-> <<"1", "2">>,
       Edition |-> <<"E", "1">>, Year |-> <<"1", "8", "1", "8">>],
      [Title |-> Notes, Author |-> MaryShelley, Pages |-> <<"x">>,
       Edition |-> << >>, Year |-> << >>],
      [Title |-> << >>, Author |-> MaryShelley, Pages |-> << >>,
       Edition |-> << >>, Year |-> << >>] }

MakeRequest(id, body) ==
    BookRequest(id, body.Title, body.Author, body.Pages, body.Edition, body.Year)

Requests == {MakeRequest(id, body) : id \in ReqIDs, body \in ReqBodies}

\* updateBook takes the ID from the path and never reads the request's.
UpdateRequests == {MakeRequest(<< >>, body) : body \in ReqBodies}

\* Title, Author, Year, Pages and Edition as the request carries them.
RequestFields(req) == <<req.Title, req.Author, req.Year, req.Pages, req.Edition>>

NoRequest == BookRequest(<< >>, << >>, << >>, << >>, << >>, << >>)

NoBook == BookStore(<< >>, << >>, << >>, << >>, 0, 0)

\* Search queries: none, two plain texts, and two patterns.
Queries == { << >>, <<"p", "o", "e">>, <<"e", "1">>, <<".">>, <<"(">> }

\* The last call, as the state keeps it.
Response(op, status, err) ==
    [op |-> op, status |-> status, err |-> err, req |-> NoRequest,
     id |-> << >>, q |-> << >>, ids |-> << >>, book |-> NoBook,
     books |-> << >>, authors |-> {}]

\* ---------------------------------------------------------------------- Init

NoLocal == [req |-> NoRequest, top |-> [ok |-> FALSE, val |-> 0], id |-> << >>,
            tmp |-> 0, book |-> NoBook, err |-> ErrNone]

Workers == {1, 2}

\* The database is empty and no process has started.
Init ==
    /\ store = << >>
    /\ idCounter = IdCounterStart
    /\ running = FALSE
    /\ resp = Response("none", 0, ErrNone)
    /\ calls = 0
    /\ created = {}
    /\ returned = {}
    /\ deleted = {}
    /\ emptyCalls = 0
    /\ pc = [w \in Workers |-> "idle"]
    /\ local = [w \in Workers |-> NoLocal]

\* Every call counts.
Call == calls < MaxCalls /\ calls' = calls + 1

\* ------------------------------------------------------------------- actions

\* main up to e.Start: a new process (idCounter at its initial value) runs
\* prepareData and then serves, unless prepareData ended in log.Fatal.
Boot ==
    /\ Call
    /\ LET r == PrepareData(store, IdCounterStart)
       IN  /\ store' = r.coll
           /\ idCounter' = r.counter
           /\ running' = ~r.fatal
           /\ resp' = [Response("boot", 0, IF r.fatal THEN "fatal" ELSE ErrNone)
                          EXCEPT !.ids = r.ids]
           /\ emptyCalls' = IF store = << >> THEN 3 ELSE -1
           /\ returned' = {r.ids[k] : k \in 1..3}
           /\ deleted' = IF r.coll # store THEN {} ELSE deleted
    /\ UNCHANGED <<created, pc, local>>

\* POST /api/books with a request lacking title or author: 400.
PostBooksBad(req) ==
    /\ running
    /\ Call
    /\ req.Title = << >> \/ req.Author = << >>
    /\ resp' = [Response("create", 400, "bad request") EXCEPT !.req = req]
    /\ UNCHANGED <<store, idCounter, running, created, returned, deleted,
                   emptyCalls, pc, local>>

\* POST /api/books: createBook; 409 for "book already exists", else 201.
PostBooks(req) ==
    /\ running
    /\ Call
    /\ ~(req.Title = << >> \/ req.Author = << >>)
    /\ LET r == CreateBook(store, idCounter, req)
       IN  /\ store' = r.coll
           /\ idCounter' = r.counter
           /\ resp' = [Response("create", IF r.err = ErrExists THEN 409 ELSE 201, r.err)
                          EXCEPT !.req = req, !.ids = r.ids, !.book = r.book]
           /\ created' = IF r.err = ErrNone THEN created \cup {RequestFields(req)}
                         ELSE created
           /\ returned' = returned \cup {r.ids[k] : k \in 1..Len(r.ids)}
           /\ deleted' = IF r.err = ErrNone THEN {} ELSE deleted
           /\ emptyCalls' = IF r.ids = << >> THEN emptyCalls
                            ELSE IF store = << >> /\ emptyCalls >= 0
                                 THEN emptyCalls + 1 ELSE -1
    /\ UNCHANGED <<running, pc, local>>

\* PUT /api/books/:id with a request lacking title or author: 400.
PutBookBad(id, req) ==
    /\ running
    /\ Call
    /\ req.Title = << >> \/ req.Author = << >>
    /\ resp' = [Response("update", 400, "bad request") EXCEPT !.req = req, !.id = id]
    /\ UNCHANGED <<store, idCounter, running, created, returned, deleted,
                   emptyCalls, pc, local>>

\* PUT /api/books/:id: updateBook; 404 for "book not found", else 200.
PutBook(id, req) ==
    /\ running
    /\ Call
    /\ ~(req.Title = << >> \/ req.Author = << >>)
    /\ LET r == UpdateBook(store, id, req)
       IN  /\ store' = r.coll
           /\ resp' = [Response("update", IF r.err = ErrNotFound THEN 404 ELSE 200, r.err)
                          EXCEPT !.req = req, !.id = id]
           /\ created' = IF r.err = ErrNone THEN {} ELSE created
    /\ UNCHANGED <<idCounter, running, returned, deleted, emptyCalls, pc, local>>

\* DELETE /api/books/:id: deleteBook; 204 for "book not found", else 200.
DeleteBooks(id) ==
    /\ running
    /\ Call
    /\ LET r == DeleteBook(store, id)
       IN  /\ store' = r.coll
           /\ resp' = [Response("delete", IF r.err = ErrNotFound THEN 204 ELSE 200, r.err)
                          EXCEPT !.id = id]
           /\ created' = IF r.err = ErrNone THEN {} ELSE created
           /\ deleted' = IF r.err = ErrNone THEN deleted \cup {id} ELSE deleted
    /\ UNCHANGED <<idCounter, running, returned, emptyCalls, pc, local>>

\* GET /api/search: 400 without a query, 500 when the Find fails, else the
\* matching documents.
GetSearch(q) ==
    /\ running
    /\ Call
    /\ resp' = IF q = << >>
               THEN [Response("search", 400, "Missing search query") EXCEPT !.q = q]
               ELSE IF ~RegexCompiles(q)
               THEN [Response("search", 500, "Search error") EXCEPT !.q = q]
               ELSE [Response("search", 200, ErrNone)
                        EXCEPT !.q = q, !.books = SearchBooks(store, q)]
    /\ UNCHANGED <<store, idCounter, running, created, returned, deleted,
                   emptyCalls, pc, local>>

\* GET /authors.
GetAuthorsPage ==
    /\ running
    /\ Call
    /\ resp' = [Response("authors", 200, ErrNone) EXCEPT !.authors = GetAuthors(store)]
    /\ UNCHANGED <<store, idCounter, running, created, returned, deleted,
                   emptyCalls, pc, local>>

\* The IDs a client addresses: those of the documents, and one of none.
PathIDs == StoredIDs(store) \cup {MissingID}

Next ==
    \/ Boot
    \/ \E req \in Requests : PostBooksBad(req)
    \/ \E req \in Requests : PostBooks(req)
    \/ \E id \in PathIDs, req \in UpdateRequests : PutBookBad(id, req)
    \/ \E id \in PathIDs, req \in UpdateRequests : PutBook(id, req)
    \/ \E id \in PathIDs : DeleteBooks(id)
    \/ \E q \in Queries : GetSearch(q)
    \/ GetAuthorsPage

\* One process at a time, its calls one after the other.
Spec == Init /\ [][Next]_vars

\* -------------------------------------------------------- concurrent creates

\* The state a serving process is in after its first start on an empty
\* database: the three seeds are stored.
Seeded == PrepareData(<< >>, IdCounterStart)

\* The requests POST /api/books hands to createBook.
CreateRequests == {r \in Requests : r.Title # << >> /\ r.Author # << >>}

\* Two requests are being served, each on its own goroutine.
InitConc ==
    /\ store = Seeded.coll
    /\ idCounter = Seeded.counter
    /\ running = TRUE
    /\ resp = Response("boot", 0, ErrNone)
    /\ calls = 1
    /\ created = {}
    /\ returned = {Seeded.ids[k] : k \in 1..3}
    /\ deleted = {}
    /\ emptyCalls = 3
    /\ pc = [w \in Workers |-> "idle"]
    /\ local = [w \in Workers |-> NoLocal]

Serial == <<running, resp, calls, created, returned, deleted, emptyCalls>>

\* createBook is entered: Pages and Year are coerced, and a request that
\* brings its ID skips getNextID.
Enter(w, req) ==
    /\ pc[w] = "idle"
    /\ local' = [local EXCEPT ![w].req = req, ![w].id = req.ID]
    /\ pc' = [pc EXCEPT ![w] = IF req.ID = << >> THEN "aggregate" ELSE "exists"]
    /\ UNCHANGED <<store, idCounter>>
    /\ UNCHANGED Serial

\* getNextID: coll.Aggregate and cursor.All, then strconv.ParseInt.
Aggregate(w) ==
    /\ pc[w] = "aggregate"
    /\ local' = [local EXCEPT ![w].top =
                    IF Len(store) > 0 THEN ParseInt(TopID(store))
                    ELSE [ok |-> FALSE, val |-> 0]]
    /\ pc' = [pc EXCEPT ![w] = "assign"]
    /\ UNCHANGED <<store, idCounter>>
    /\ UNCHANGED Serial

\* getNextID: idCounter = existingID + 1, when there was an ID and it parsed.
\* idCounter is a plain variable shared by the goroutines: each read and each
\* write of it is a step of its own.
Assign(w) ==
    /\ pc[w] = "assign"
    /\ idCounter' = IF local[w].top.ok THEN local[w].top.val + 1 ELSE idCounter
    /\ pc' = [pc EXCEPT ![w] = "format"]
    /\ UNCHANGED <<store, local>>
    /\ UNCHANGED Serial

\* getNextID: id := strconv.FormatInt(idCounter, 10).
Format(w) ==
    /\ pc[w] = "format"
    /\ local' = [local EXCEPT ![w].id = FormatInt(idCounter)]
    /\ pc' = [pc EXCEPT ![w] = "load"]
    /\ UNCHANGED <<store, idCounter>>
    /\ UNCHANGED Serial

\* getNextID: idCounter++, its read.
Load(w) ==
    /\ pc[w] = "load"
    /\ local' = [local EXCEPT ![w].tmp = idCounter]
    /\ pc' = [pc EXCEPT ![w] = "incr"]
    /\ UNCHANGED <<store, idCounter>>
    /\ UNCHANGED Serial

\* getNextID: idCounter++, its write.
Incr(w) ==
    /\ pc[w] = "incr"
    /\ idCounter' = local[w].tmp + 1
    /\ pc' = [pc EXCEPT ![w] = "exists"]
    /\ UNCHANGED <<store, local>>
    /\ UNCHANGED Serial

\* createBook: the book is built and bookExists asked.
Exists(w) ==
    /\ pc[w] = "exists"
    /\ LET r    == local[w].req
           book == BookStore(local[w].id, r.Title, r.Author, r.Edition,
                             Coerce(r.Pages), Coerce(r.Year))
       IN  IF BookExists(store, book)
           THEN /\ local' = [local EXCEPT ![w].book = book, ![w].err = ErrExists]
                /\ pc' = [pc EXCEPT ![w] = "done"]
           ELSE /\ local' = [local EXCEPT ![w].book = book]
                /\ pc' = [pc EXCEPT ![w] = "insert"]
    /\ UNCHANGED <<store, idCounter>>
    /\ UNCHANGED Serial

\* createBook: coll.InsertOne.
Insert(w) ==
    /\ pc[w] = "insert"
    /\ store' = InsertOne(store, local[w].book)
    /\ pc' = [pc EXCEPT ![w] = "done"]
    /\ UNCHANGED <<idCounter, local>>
    /\ UNCHANGED Serial

NextConc ==
    \E w \in Workers :
        \/ \E req \in CreateRequests : Enter(w, req)
        \/ Aggregate(w)
        \/ Assign(w)
        \/ Format(w)
        \/ Load(w)
        \/ Incr(w)
        \/ Exists(w)
        \/ Insert(w)

\* Two createBook calls on two goroutines, interleaved at their store calls
\* and at their accesses to idCounter.
SpecConc == InitConc /\ [][NextConc]_vars

\* -------------------------------------------------------------------- claims

\* The call of the step was served by the function named (a 400 is answered
\* by the handler before the function is entered).
Served(r, op) == r.op = op /\ r.status # 400

\* C1: in every reachable state no two documents of the collection have the
\* same ID.
C1_UniqueIDs ==
    \A i, j \in 1..Len(store) : i # j => store[i].ID # store[j].ID

\* C2: once createBook has succeeded for a request, and with no update or
\* delete since, a createBook whose request has the same Title, Author, Year,
\* Pages and Edition fails with "book already exists" and leaves the
\* collection as it was.
C2_SecondCreateFails ==
    [][ (Served(resp', "create") /\ RequestFields(resp'.req) \in created)
            => (resp'.err = ErrExists /\ store' = store) ]_vars

\* C2's case: a create with the fields of an earlier, successful one has just
\* been refused.
C2_Witness ==
    /\ Served(resp, "create")
    /\ RequestFields(resp.req) \in created
    /\ resp.err = ErrExists

\* A non-empty string of decimal digits.
IsDecimal(id) == id # << >> /\ AllDigits(id)

\* The largest of the stored IDs read as numbers.
LargestID(coll) ==
    CHOOSE n \in {DigitsValue(id) : id \in StoredIDs(coll)} :
        \A id \in StoredIDs(coll) : DigitsValue(id) <= n

\* C3: when the collection is not empty and every stored ID is a decimal
\* string, each getNextID call returns the decimal string of the numerically
\* largest stored ID plus one.  (getNextID is called before anything is
\* inserted, so it sees the collection of the step's first state.)
C3_NextIsLargestPlusOne ==
    [][ (Len(store) > 0 /\ \A id \in StoredIDs(store) : IsDecimal(id))
            => \A k \in 1..Len(resp'.ids) :
                   /\ IsDecimal(resp'.ids[k])
                   /\ DigitsValue(resp'.ids[k]) = LargestID(store) + 1 ]_vars

\* The IDs getNextID returned in this process before call k of the step; a
\* step that starts a process starts with none.
Earlier(k) ==
    (IF resp'.op = "boot" THEN {} ELSE returned)
        \cup {resp'.ids[j] : j \in 1..(k - 1)}

\* C4: with one call at a time, no ID getNextID returns is the ID of a stored
\* document or an ID it returned before, and each is above those it returned
\* before.
C4_FreshAndIncreasing ==
    [][ \A k \in 1..Len(resp'.ids) :
            /\ resp'.ids[k] \notin StoredIDs(store)
            /\ \A e \in Earlier(k) :
                   /\ e # resp'.ids[k]
                   /\ DigitsValue(e) < DigitsValue(resp'.ids[k]) ]_vars

\* C5: in a process all of whose getNextID calls found the collection empty,
\* call k returns 1000000 + (k - 1); the first returns "1000000" and the
\* second "1000001".
C5_EmptyStoreSequence ==
    [][ (store = << >> /\ (resp'.op = "boot" \/ emptyCalls >= 0))
            => \A k \in 1..Len(resp'.ids) :
                   LET before == IF resp'.op = "boot" THEN 0 ELSE emptyCalls
                       got    == ParseInt(resp'.ids[k])
                   IN  /\ got.ok
                       /\ got.val = 1000000 + (before + k - 1)
                       /\ before + k = 1
                              => resp'.ids[k] = <<"1", "0", "0", "0", "0", "0", "0">>
                       /\ before + k = 2
                              => resp'.ids[k] = <<"1", "0", "0", "0", "0", "0", "1">> ]_vars

\* C5's case: a process has started on an empty database and made its first
\* three getNextID calls.
C5_Witness ==
    /\ resp.op = "boot"
    /\ emptyCalls = 3
    /\ Len(resp.ids) = 3
    /\ resp.ids[2] = <<"1", "0", "0", "0", "0", "0", "1">>

\* The document updateBook is to leave behind for a document with this ID.
Updated(id, req) ==
    BookStore(id, req.Title, req.Author, req.Edition, Coerce(req.Pages),
              Coerce(req.Year))

\* C6: updateBook(id, req) fails with "book not found" and changes nothing
\* when no document has the ID; otherwise it succeeds, one document with that
\* ID gets the request's Title, Author and Edition and its coerced Pages and
\* Year and keeps its ID, and every other document stays as it was.
C6_UpdateByID ==
    [][ Served(resp', "update") =>
          IF resp'.id \notin StoredIDs(store)
          THEN resp'.err = ErrNotFound /\ store' = store
          ELSE /\ resp'.err = ErrNone
               /\ Len(store') = Len(store)
               /\ \E i \in 1..Len(store) :
                      /\ store[i].ID = resp'.id
                      /\ store'[i] = Updated(resp'.id, resp'.req)
                      /\ \A j \in 1..Len(store) : j # i => store'[j] = store[j] ]_vars

\* C6's case: an update has just replaced the fields of a stored document,
\* the Pages written "12a" stored as 12.
C6_Witness ==
    /\ Served(resp, "update")
    /\ resp.err = ErrNone
    /\ resp.req.Pages = <<"1", "2", "a">>
    /\ \E i \in 1..Len(store) :
           /\ store[i].ID = resp.id
           /\ store[i].BookName = Dune
           /\ store[i].BookPages = 12

\* C7: after a deleteBook(id) that succeeded, and with no insert since, a
\* deleteBook(id) fails with "book not found" and leaves the collection as it
\* was.
C7_SecondDeleteFails ==
    [][ (resp'.op = "delete" /\ resp'.id \in deleted)
            => (resp'.err = ErrNotFound /\ store' = store) ]_vars

\* Whether text holds q as a substring, letter case aside.
Contains(text, q) ==
    \E i \in 1..(Len(text) - Len(q) + 1) :
        \A j \in 1..Len(q) : ToLower(text[i + j - 1]) = ToLower(q[j])

\* C8: for a non-empty query the search returns exactly the stored documents
\* whose Title, Author or ISBN holds the query as a case-insensitive
\* substring.
C8_SearchIsSubstring ==
    (resp.op = "search" /\ resp.q # << >>)
        => resp.books = SelectSeq(store, LAMBDA doc :
                            \/ Contains(doc.BookName, resp.q)
                            \/ Contains(doc.BookAuthor, resp.q)
                            \/ Contains(doc.BookISBN, resp.q))

\* A document getAuthors counts: Title and ISBN both non-empty.
Qualifies(doc) == doc.BookName # << >> /\ doc.BookISBN # << >>

\* The Titles of the author's qualifying documents, in the collection's order.
TitlesOf(coll, author) ==
    LET own == SelectSeq(coll, LAMBDA doc : Qualifies(doc) /\ doc.BookAuthor = author)
    IN  [i \in 1..Len(own) |-> own[i].BookName]

\* C9: getAuthors returns one bucket for each author of a qualifying document
\* and no other; a bucket lists the Titles of its author's qualifying
\* documents in the collection's order, so a document with an empty Title or
\* an empty ISBN adds to none.
C9_AuthorBuckets ==
    resp.op = "authors" =>
        resp.authors =
            { [BookAuthor |-> a, BookName |-> TitlesOf(store, a)] :
                a \in {store[i].BookAuthor : i \in {n \in 1..Len(store) : Qualifies(store[n])}} }

\* C9's case: getAuthors has answered for a collection in which one author
\* has two qualifying documents and a document without ISBN.
C9_Witness ==
    /\ resp.op = "authors"
    /\ \E b \in resp.authors : Len(b.BookName) >= 2
    /\ \E i \in 1..Len(store) :
           /\ store[i].BookISBN = << >>
           /\ \E b \in resp.authors : b.BookAuthor = store[i].BookAuthor

\* Worker w got past bookExists (it was not refused) and is done.
PassedAndDone(w) == pc[w] = "done" /\ local[w].err = ErrNone

\* The documents of the collection with the five fields of book.
SameTuple(coll, book) == {i \in 1..Len(coll) : Tuple(coll[i]) = Tuple(book)}

\* C10: when two concurrent createBook calls with the same Title, Author,
\* Year, Pages and ISBN have both passed bookExists, nothing stops either
\* insert: once both are done the collection holds two documents with that
\* five-field tuple.
C10_BothInsert ==
    \A v, w \in Workers :
        (/\ v # w
         /\ PassedAndDone(v) /\ PassedAndDone(w)
         /\ Tuple(local[v].book) = Tuple(local[w].book))
            => Cardinality(SameTuple(store, local[v].book)) >= 2

\* C10's case: both workers passed the check with the same five fields, both
\* inserted, and the collection holds the tuple twice.
C10_Witness ==
    /\ \A w \in Workers : PassedAndDone(w)
    /\ Tuple(local[1].book) = Tuple(local[2].book)
    /\ Cardinality(SameTuple(store, local[1].book)) = 2

\* The documents of the collection that are seed i, whatever their ID.
SeedCopies(coll, i) ==
    {n \in 1..Len(coll) : Tuple(coll[n]) = Tuple(SeedBook(i, << >>))}

\* C11: when a process starts on a database that holds the three seed books
\* already, prepareData inserts nothing: the collection is as it was.
C11_SeedingIdempotent ==
    [][ (resp'.op = "boot" /\ \A i \in 1..3 : SeedCopies(store, i) # {})
            => store' = store ]_vars

\* No two documents have the same Title, Author, Year, Pages and ISBN.
NoDuplicateTuples(coll) ==
    \A i, j \in 1..Len(coll) : i # j => Tuple(coll[i]) # Tuple(coll[j])

\* C12 as stated: with one call at a time, createBook, updateBook and
\* deleteBook keep the collection free of documents with the same five
\* fields, so that from the empty collection on no two documents share them.
C12_NoDuplicatesEver ==
    [][ (resp'.op \in {"create", "update", "delete"} /\ NoDuplicateTuples(store))
            => NoDuplicateTuples(store') ]_vars

\* C12 amended: createBook and deleteBook keep the collection free of
\* documents with the same five fields (updateBook does not: it writes
\* without looking).
C12_CreateDeleteKeepDistinct ==
    [][ (resp'.op \in {"create", "delete"} /\ NoDuplicateTuples(store))
            => NoDuplicateTuples(store') ]_vars

\* C12's case: createBook has just stored a document next to the seeds and
\* no two documents share their five fields.
C12_Witness ==
    /\ Served(resp, "create")
    /\ resp.err = ErrNone
    /\ Len(store) >= 4
    /\ store[Len(store)] = resp.book
    /\ NoDuplicateTuples(store)

====
